---- MODULE Spec2Model ----
(***************************************************************************)
(* boolean_expression: a heap of Condition objects (leaves and Compounds), *)
(* the constructors AND / OR / NOT / Compound and the operators & | ^ ~,   *)
(* Compound.flatten with its identity memo, and Renderer.to_str for the    *)
(* four shipped renderers.                                                 *)
(*                                                                         *)
(* Objects live in `heap`, a function from object identities (positive     *)
(* integers, Python's id()) to records.  A Compound's `components` is the  *)
(* sequence of its children's identities and `lst` names the list object   *)
(* that holds them.  Strings rendered by to_str are TLA+ strings.          *)
(***************************************************************************)
EXTENDS Integers, Sequences, FiniteSets, TLC

VARIABLES heap, call, pre, out, left

vars == <<heap, call, pre, out, left>>

\* ---------------------------------------------------------------- bounds
\* at most this many calls that change the heap are made in one behaviour
MaxBuilt == 3
\* the heap never holds more objects than this
MaxNodes == 9

\* The interpreter's recursion limit, scaled to the model: larger than the
\* depth of any acyclic structure the heap can hold, so only unbounded
\* recursion reaches it.
RecursionLimit == MaxNodes + 2

\* ---------------------------------------------------------------- objects
ComparisonKinds == {"EQ", "NE", "GT", "GTE", "LT", "LTE"}

Comparison(kind, field, value) ==
    [kind |-> kind, operator |-> "-", components |-> <<>>, lst |-> 0,
     field |-> field, value |-> value]

Expression(value) ==
    [kind |-> "Expression", operator |-> "-", components |-> <<>>, lst |-> 0,
     field |-> "-", value |-> value]

CompoundNode(operator, components, lst) ==
    [kind |-> "Compound", operator |-> operator, components |-> components,
     lst |-> lst, field |-> "-", value |-> "-"]

CompoundOperator == {"AND", "OR", "NOT"}

IsCompound(h, n) == h[n].kind = "Compound"

\* a fresh identity: identities are handed out in sequence, and the heap
\* holds the objects 1..n
Alloc(h) == Cardinality(DOMAIN h) + 1

Store(h, n, node) == [i \in DOMAIN h \cup {n} |-> IF i = n THEN node ELSE h[i]]

\* the outcome of a call: how it ended, the heap it leaves, and what it
\* returned (an identity, and for to_str a string); memo is flatten's set
Ok(h, memo, result) ==
    [status |-> "ok", heap |-> h, memo |-> memo, result |-> result, str |-> ""]

Raise(e, h, memo) ==
    [status |-> e, heap |-> h, memo |-> memo, result |-> 0, str |-> ""]

\* a list object that no other object holds yet
NewList == 0

\* ------------------------------------------------------------ constructors
CompoundInitNoCheck(h, operator, components, lst) ==
    LET n == Alloc(h)
    IN  Ok(Store(h, n, CompoundNode(operator, components,
                                    IF lst = NewList THEN n ELSE lst)), {}, n)

\* Compound.__init__: a list argument is kept as it is, and an empty one is
\* refused
CompoundInit(h, operator, components, lst) ==
    IF Len(components) = 0
    THEN Raise("ValueError", h, {})
    ELSE LET n == Alloc(h)
         IN  Ok(Store(h, n, CompoundNode(operator, components,
                                         IF lst = NewList THEN n ELSE lst)), {}, n)

RECURSIVE ExtendEQ(_, _, _)
\* items.extend(EQ(k, v) for (k, v) in fields.items()): allocates one EQ leaf
\* per named pair, in the order given; <<heap, items>>
ExtendEQ(h, items, fields) ==
    IF fields = <<>>
    THEN <<h, items>>
    ELSE LET n == Alloc(h)
         IN  ExtendEQ(Store(h, n, Comparison("EQ", fields[1][1], fields[1][2])),
                      Append(items, n), Tail(fields))

AND(h, components, fields) ==
    LET e == ExtendEQ(h, components, fields)
    IN  CompoundInit(e[1], "AND", e[2], NewList)

OR(h, components, fields) ==
    LET e == ExtendEQ(h, components, fields)
    IN  CompoundInit(e[1], "OR", e[2], NewList)

NOTCountAtLeastOne(count) == count >= 1

\* (count := len(items)) != 1 is refused
NOTCountOk(count) == count = 1

\* NOT(component=None, /, **fields); positional is the sequence of the
\* positional arguments of the call.  `if component:` holds for every
\* Condition passed, none of the classes defining __bool__ or __len__.
NOT(h, positional, fields) ==
    IF Len(positional) > 1
    THEN Raise("TypeError", h, {})
    ELSE LET e     == ExtendEQ(h, <<>>, fields)
             items == e[2] \o positional
         IN  IF ~NOTCountOk(Len(items))
             THEN Raise("ValueError", e[1], {})
             ELSE CompoundInit(e[1], "NOT", items, NewList)

\* Condition.__and__, __or__, __invert__, __xor__
CondAnd(h, self, other) == AND(h, <<self, other>>, <<>>)

CondOr(h, self, other) == OR(h, <<self, other>>, <<>>)

CondInvert(h, self) == NOT(h, <<self>>, <<>>)

CondXor(h, self, other) ==
    LET n1 == NOT(h, <<other>>, <<>>)
        a1 == AND(n1.heap, <<self, n1.result>>, <<>>)
        n2 == NOT(a1.heap, <<self>>, <<>>)
        a2 == AND(n2.heap, <<other, n2.result>>, <<>>)
    IN  OR(a2.heap, <<a1.result, a2.result>>, <<>>)

\* ------------------------------------------------------------------ flatten
\* Condition.flatten: a leaf is returned as it is
ConditionFlatten(h, self) == Ok(h, {}, self)

\* memo = memo if memo else set(); memo.add(id(self))
EnterMemo(memo, self) == (IF memo # {} THEN memo ELSE {}) \cup {self}

\* if id(item) in memo
InMemo(item, memo) == item \in memo

SameOperatorNever(h, self, item) == FALSE

\* isinstance(item, Compound) and item.operator == self.operator
SameOperator(h, self, item) ==
    IsCompound(h, item) /\ h[item].operator = h[self].operator

SplicedUnflattened(h, item, r) == h[item].components

\* flattened.extend(item.flatten(memo=memo).components): what is spliced in
Spliced(h, item, r) == r.heap[r.result].components

RebuildInPlace(h, self, flattened, memo) ==
    IF Len(flattened) = 0
    THEN Raise("ValueError", h, memo)
    ELSE [Ok(Store(h, self, CompoundNode(h[self].operator, flattened, self)),
             memo, self) EXCEPT !.memo = memo]

\* return Compound(self.operator, flattened)
Rebuild(h, self, flattened, memo) ==
    [CompoundInit(h, h[self].operator, flattened, NewList) EXCEPT !.memo = memo]

RECURSIVE CompoundFlatten(_, _, _, _)
RECURSIVE FlattenLoop(_, _, _, _, _, _)

\* the for loop of Compound.flatten from item i on
FlattenLoop(h, self, i, memo, flattened, depth) ==
    IF i > Len(h[self].components)
    THEN Rebuild(h, self, flattened, memo)
    ELSE LET item == h[self].components[i]
         IN  IF InMemo(item, memo)
             THEN Raise("CircularDependency", h, memo)
             ELSE IF SameOperator(h, self, item)
             THEN LET r == CompoundFlatten(h, item, memo, depth + 1)
                  IN  IF r.status # "ok"
                      THEN r
                      ELSE FlattenLoop(r.heap, self, i + 1, r.memo,
                                       flattened \o Spliced(h, item, r), depth)
             ELSE LET r == IF IsCompound(h, item)
                           THEN CompoundFlatten(h, item, {}, depth + 1)
                           ELSE ConditionFlatten(h, item)
                  IN  IF r.status # "ok"
                      THEN r
                      ELSE FlattenLoop(r.heap, self, i + 1, memo,
                                       Append(flattened, r.result), depth)

\* Compound.flatten(self, memo); depth is the number of flatten frames on the
\* stack, and a call past the recursion limit raises RecursionError
CompoundFlatten(h, self, memo, depth) ==
    IF depth > RecursionLimit
    THEN Raise("RecursionError", h, memo)
    ELSE FlattenLoop(h, self, 1, EnterMemo(memo, self), <<>>, depth)

\* x.flatten() as a caller writes it
Flatten(h, x) ==
    IF IsCompound(h, x) THEN CompoundFlatten(h, x, {}, 1) ELSE ConditionFlatten(h, x)

\* ---------------------------------------------------------------- renderers
Renderers == {"Renderer", "PythonRenderer", "LdapRenderer", "AirtableRenderer"}

\* the class variable `compounds`: <<text before {items}, text after, joiner>>
compounds(r, operator) ==
    CASE r = "LdapRenderer" ->
           (CASE operator = "AND" -> <<"(&", ")", "">>
              [] operator = "OR"  -> <<"(|", ")", "">>
              [] OTHER            -> <<"(!", ")", "">>)
      [] r = "AirtableRenderer" ->
           (CASE operator = "AND" -> <<"AND(", ")", ", ">>
              [] operator = "OR"  -> <<"OR(", ")", ", ">>
              [] OTHER            -> <<"NOT(", ")", ", ">>)
      [] OTHER ->
           (CASE operator = "AND" -> <<"(", ")", " and ">>
              [] operator = "OR"  -> <<"(", ")", " or ">>
              [] OTHER            -> <<"not ", "", "">>)

\* the class variable `comparisons`
comparisons(r, kind) ==
    IF r = "PythonRenderer"
    THEN (CASE kind = "EQ"  -> " == "
            [] kind = "NE"  -> " != "
            [] kind = "GT"  -> " > "
            [] kind = "GTE" -> " >= "
            [] kind = "LT"  -> " < "
            [] OTHER        -> " <= ")
    ELSE (CASE kind = "EQ"  -> "="
            [] kind = "NE"  -> "!="
            [] kind = "GT"  -> ">"
            [] kind = "GTE" -> ">="
            [] kind = "LT"  -> "<"
            [] OTHER        -> "<=")

\* Values are written as Python literals: the int 1, None, the str 'group'.
IsNone(value) == value = "None"

IsStr(value) == value = "'group'"

\* str(value) and repr(value)
Str(value) == IF IsStr(value) THEN "group" ELSE value

Repr(value) == value

\* field.startswith("{") and field.endswith("}")
Braced(field) == field = "{Date Field}"

format_field(r, field) ==
    CASE r = "LdapRenderer" ->
           IF field = "memberOf" THEN "memberOf:1.2.840.113556.1.4.1941" ELSE field
      [] r = "AirtableRenderer" ->
           IF ~Braced(field) THEN "{" \o field \o "}" ELSE field
      [] OTHER -> field

\* format_value: <<status, text>>; only AirtableRenderer refuses a value
format_value(r, value) ==
    CASE r = "PythonRenderer" -> <<"ok", Repr(value)>>
      [] r = "AirtableRenderer" ->
           IF IsNone(value) THEN <<"ok", "EMPTY()">>
           ELSE IF IsStr(value) THEN <<"TypeError", "">>
           ELSE <<"ok", Str(value)>>
      [] OTHER -> <<"ok", Str(value)>>

\* Renderer.render_comparison
BaseRenderComparison(r, node) ==
    LET v == format_value(r, node.value)
    IN  IF v[1] # "ok"
        THEN <<v[1], "">>
        ELSE <<"ok", format_field(r, node.field) \o comparisons(r, node.kind) \o v[2]>>

\* render_comparison as the renderer's class resolves it
render_comparison(r, node) ==
    IF r = "LdapRenderer"
    THEN IF IsNone(node.value)
         THEN <<"ok", "(!" \o node.field \o "=*)">>
         ELSE LET b == BaseRenderComparison(r, node)
              IN  <<b[1], "(" \o b[2] \o ")">>
    ELSE BaseRenderComparison(r, node)

Rendered(h, text) ==
    [status |-> "ok", heap |-> h, memo |-> {}, result |-> 0, str |-> text]

RECURSIVE to_str(_, _, _)
RECURSIVE JoinItems(_, _, _, _, _)

\* joiner.join(self.to_str(item) for item in compound), from item i on
JoinItems(r, h, compound, i, acc) ==
    IF i > Len(h[compound].components)
    THEN Rendered(h, acc)
    ELSE LET t == to_str(r, h, h[compound].components[i])
         IN  IF t.status # "ok"
             THEN t
             ELSE JoinItems(r, t.heap, compound, i + 1,
                            IF i = 1 THEN t.str
                            ELSE acc \o compounds(r, h[compound].operator)[3] \o t.str)

\* Renderer.render_compound
render_compound(r, h, compound) ==
    LET fmt == compounds(r, h[compound].operator)
        j   == JoinItems(r, h, compound, 1, "")
    IN  IF j.status # "ok" THEN j ELSE Rendered(j.heap, fmt[1] \o j.str \o fmt[2])

\* Renderer.to_str
BaseToStr(r, h, condition) ==
    IF h[condition].kind \in ComparisonKinds
    THEN LET c == render_comparison(r, h[condition])
         IN  IF c[1] = "ok" THEN Rendered(h, c[2]) ELSE Raise(c[1], h, {})
    ELSE LET f == Flatten(h, condition)
         IN  IF f.status # "ok"
             THEN f
             ELSE IF h[condition].kind = "Expression"
             THEN Rendered(f.heap, Str(f.heap[f.result].value))
             ELSE render_compound(r, f.heap, f.result)

\* to_str as the renderer's class resolves it: LdapRenderer converts NE() to
\* NOT(EQ()) and calls the base method
to_str(r, h, component) ==
    IF r = "LdapRenderer" /\ h[component].kind = "NE"
    THEN LET n  == Alloc(h)
             h1 == Store(h, n, Comparison("EQ", h[component].field, h[component].value))
             w  == NOT(h1, <<n>>, <<>>)
         IN  BaseToStr(r, w.heap, w.result)
    ELSE BaseToStr(r, h, component)

\* ------------------------------------------------------------ the program
\* heap: the objects the caller holds; pre: the heap before the last call;
\* out: the objects after the last call, those of its result included;
\* call: the last call and how it ended; left: how many more calls may change
\* the heap.

Range(f) == {f[i] : i \in DOMAIN f}

RECURSIVE ReachFrom(_, _, _)
\* the objects reachable from the set S by following components (n rounds)
ReachFrom(h, S, n) ==
    LET T == S \cup UNION {Range(h[x].components) : x \in S}
    IN  IF n = 0 \/ T = S THEN S ELSE ReachFrom(h, T, n - 1)

Reach(h, S) == ReachFrom(h, S, Cardinality(DOMAIN h))

\* The objects a call leaves behind: those that existed before it (as the
\* call left them) and those it allocated that its result refers to.  What
\* it allocated and no longer refers to is unreachable and freed; the
\* survivors take the next free identities, in allocation order.
Surviving(h0, r) ==
    IF r.status = "ok" /\ r.result # 0
    THEN Reach(r.heap, {r.result}) \ DOMAIN h0
    ELSE {}

\* the identity object n has once the freed objects are gone
Moved(h0, surv, n) ==
    IF n \in DOMAIN h0 \/ n <= 0
    THEN n
    ELSE Cardinality(DOMAIN h0) + Cardinality({k \in surv : k <= n})

Settle(h0, r) ==
    LET surv == Surviving(h0, r)
        keep == DOMAIN h0 \cup surv
        from == [m \in 1..Cardinality(keep) |->
                    CHOOSE k \in keep : Moved(h0, surv, k) = m]
    IN  [m \in 1..Cardinality(keep) |->
            LET node == r.heap[from[m]]
            IN  [node EXCEPT
                   !.components = [i \in DOMAIN node.components |->
                                       Moved(h0, surv, node.components[i])],
                   !.lst = Moved(h0, surv, node.lst)]]

Called(op, self, renderer, npos, nfields, r, result) ==
    [op |-> op, self |-> self, renderer |-> renderer, npos |-> npos,
     nfields |-> nfields, status |-> r.status, result |-> result, str |-> r.str]

\* A behaviour is a caller's program: it builds an expression call by call
\* and ends with the call that flattens or renders it, or with the first
\* call that raises.
Running == call.status = "ok" /\ call.op \notin {"flatten", "to_str"}

\* a constructor call with outcome r returns or raises; the caller keeps the
\* object it returns, which is the one allocated last
Built(op, self, npos, nfields, r) ==
    LET s == Settle(heap, r)
    IN  /\ Running
        /\ r.status = "ok" => left > 0
        /\ Cardinality(DOMAIN s) <= MaxNodes
        /\ heap' = s
        /\ out' = s
        /\ pre' = heap
        /\ call' = Called(op, self, "-", npos, nfields, r,
                          IF r.status = "ok" THEN Cardinality(DOMAIN s) ELSE 0)
        /\ left' = IF r.status = "ok" THEN left - 1 ELSE left

\* a flatten or to_str call with outcome r returns or raises; the caller
\* looks at what it returns and keeps the objects it had
Observed(op, self, renderer, r) ==
    LET s == Settle(heap, r)
    IN  /\ Running
        /\ out' = s
        /\ heap' = [n \in DOMAIN heap |-> s[n]]
        /\ pre' = heap
        /\ call' = Called(op, self, renderer, 0, 0, r,
                          Moved(heap, Surviving(heap, r), r.result))
        /\ UNCHANGED left

\* The arguments of the calls: the first leaf and the object built last
\* (at first the second leaf).
Last == Cardinality(DOMAIN heap)

Pairs == {<<Last, 1>>, <<1, Last>>, <<Last, Last>>}

Named == {<<>>, <<<<"baz", "1">>>>, <<<<"foo", "1">>, <<"bar", "None">>>>}

NoCall ==
    [op |-> "-", self |-> 0, renderer |-> "-", npos |-> 0, nfields |-> 0,
     status |-> "ok", result |-> 0, str |-> ""]

Leaves == <<Comparison("EQ", "foo", "1"), Comparison("NE", "memberOf", "1")>>

Start(n) ==
    /\ heap = Leaves
    /\ pre = heap
    /\ out = heap
    /\ call = NoCall
    /\ left = n

Init == Start(MaxBuilt)

InitAPI == Start(MaxBuilt - 1)

\* Compound(operator, components)
CallCompound ==
    \E operator \in CompoundOperator, components \in {<<>>, <<Last>>} :
        Built("Compound", 0, Len(components), 0,
              CompoundInit(heap, operator, components, NewList))

\* AND(*components, **fields)
CallAND ==
    \E components \in {<<>>, <<Last>>}, fields \in {f \in Named : Len(f) < 2} :
        Built("AND", 0, Len(components), Len(fields), AND(heap, components, fields))

\* OR(*components, **fields)
CallOR ==
    \E components \in {<<>>, <<Last>>}, fields \in {f \in Named : Len(f) < 2} :
        Built("OR", 0, Len(components), Len(fields), OR(heap, components, fields))

\* NOT(...), called with up to two positional arguments
CallNOT ==
    \E positional \in {<<>>, <<Last>>, <<Last, 1>>}, fields \in Named :
        Built("NOT", IF positional = <<>> THEN 0 ELSE positional[1],
              Len(positional), Len(fields), NOT(heap, positional, fields))

\* self & other
CallAnd ==
    \E p \in Pairs : Built("__and__", p[1], 2, 0, CondAnd(heap, p[1], p[2]))

\* self | other
CallOr ==
    \E p \in Pairs : Built("__or__", p[1], 2, 0, CondOr(heap, p[1], p[2]))

\* self ^ other
CallXor ==
    \E p \in Pairs : Built("__xor__", p[1], 2, 0, CondXor(heap, p[1], p[2]))

\* ~self
CallInvert ==
    \E self \in {Last} : Built("__invert__", self, 1, 0, CondInvert(heap, self))

\* self.flatten()
CallFlatten ==
    \E self \in {1, Last} : Observed("flatten", self, "-", Flatten(heap, self))

\* renderer.to_str(condition)
CallToStr ==
    \E r \in Renderers, condition \in {Last} :
        Observed("to_str", condition, r, to_str(r, heap, condition))

\* compound.components = [...]: a caller gives a Compound a new list (the
\* list made by this assignment is named -self)
SetComponents ==
    \E self \in DOMAIN heap, o \in {Last} :
        /\ Running
        /\ IsCompound(heap, self)
        /\ IsCompound(heap, o)
        /\ left > 0
        /\ heap' = [heap EXCEPT ![self].components = <<o>>, ![self].lst = 0 - self]
        /\ out' = heap'
        /\ pre' = heap
        /\ call' = [NoCall EXCEPT !.op = "components=", !.self = self, !.npos = 1]
        /\ left' = left - 1

Operators ==
    \/ CallAnd
    \/ CallOr
    \/ CallXor
    \/ CallInvert

Functions ==
    \/ CallCompound
    \/ CallAND
    \/ CallOR
    \/ CallNOT

Next ==
    \/ Operators
    \/ CallFlatten
    \/ CallToStr

\* expressions grown with & | ^ ~, flattened and rendered
Spec == Init /\ [][Next]_vars

NextAPI ==
    \/ Functions
    \/ Operators
    \/ CallFlatten
    \/ CallToStr

\* every entry point of the library, in shorter behaviours
SpecAPI == InitAPI /\ [][NextAPI]_vars

NextMut ==
    \/ Operators
    \/ SetComponents
    \/ CallFlatten
    \/ CallToStr

\* callers that also assign to a Compound's components
SpecMut == Init /\ [][NextMut]_vars

\* ------------------------------------------------------------- properties
Compounds(h) == {n \in DOMAIN h : IsCompound(h, n)}

\* c is reachable from itself by following components
OnCycle(h, c) == c \in Reach(h, Range(h[c].components))

\* nothing reachable from n lies on a cycle
Acyclic(h, n) == \A c \in Reach(h, {n}) : ~OnCycle(h, c)

RECURSIVE Tree(_, _)
\* the structure below n: operators and components in order, leaves by identity
Tree(h, n) ==
    IF IsCompound(h, n)
    THEN [op |-> h[n].operator, leaf |-> 0,
          sub |-> [i \in DOMAIN h[n].components |-> Tree(h, h[n].components[i])]]
    ELSE [op |-> "-", leaf |-> n, sub |-> <<>>]

RECURSIVE Eval(_, _, _)
\* the truth value of n when the leaves in `true` hold and the others do not
Eval(h, n, true) ==
    IF ~IsCompound(h, n) THEN n \in true
    ELSE IF h[n].operator = "AND"
    THEN \A i \in DOMAIN h[n].components : Eval(h, h[n].components[i], true)
    ELSE IF h[n].operator = "OR"
    THEN \E i \in DOMAIN h[n].components : Eval(h, h[n].components[i], true)
    ELSE ~Eval(h, h[n].components[1], true)

LeavesBelow(h, n) == {k \in Reach(h, {n}) : ~IsCompound(h, k)}

NotsUnary(h, n) ==
    \A c \in Reach(h, {n}) :
        IsCompound(h, c) /\ h[c].operator = "NOT" => Len(h[c].components) = 1

RECURSIVE Flat(_)
Flat(ss) == IF ss = <<>> THEN <<>> ELSE Head(ss) \o Flat(Tail(ss))

RECURSIVE Frontier(_, _, _)
\* the descendants of c reached through Compounds of operator op only that
\* are not themselves Compounds of operator op, left to right
Frontier(h, c, op) ==
    Flat([i \in DOMAIN h[c].components |->
             LET k == h[c].components[i]
             IN  IF IsCompound(h, k) /\ h[k].operator = op
                 THEN Frontier(h, k, op)
                 ELSE <<k>>])

RECURSIVE LeafSeq(_, _)
\* the leaves below n, left to right
LeafSeq(h, n) ==
    IF IsCompound(h, n)
    THEN Flat([i \in DOMAIN h[n].components |-> LeafSeq(h, h[n].components[i])])
    ELSE <<n>>

RECURSIVE NotDepths(_, _)
\* for each leaf below n, left to right, the number of NOTs above it
NotDepths(h, n) ==
    IF IsCompound(h, n)
    THEN LET below == Flat([i \in DOMAIN h[n].components |->
                               NotDepths(h, h[n].components[i])])
         IN  IF h[n].operator = "NOT"
             THEN [i \in DOMAIN below |-> below[i] + 1]
             ELSE below
    ELSE <<0>>

FlattenReturned == call.op = "flatten" /\ call.status = "ok"

\* C1: a tree whose NOTs have one child and its flattening have the same
\* truth value under every assignment of truth values to the leaves.
C1_FlattenEquivalent ==
    (FlattenReturned /\ NotsUnary(pre, call.self)) =>
        \A true \in SUBSET LeavesBelow(pre, call.self) :
            Eval(out, call.result, true) = Eval(pre, call.self, true)

\* C2: flatten of a Compound that is reachable from itself raises
\* CircularDependency, whatever operators lie on the cycle.
C2_CycleRaisesCircular ==
    (call.op = "flatten" /\ IsCompound(pre, call.self) /\ OnCycle(pre, call.self)) =>
        call.status = "CircularDependency"

\* C3: flatten of an acyclic structure returns a result and raises nothing,
\* also when one Compound occurs in it more than once.
C3_NoFalsePositive ==
    (call.op = "flatten" /\ Acyclic(pre, call.self)) => call.status = "ok"

\* C4: flattening the result of flatten succeeds and gives a structurally
\* equal tree, which every renderer renders to the same string.
C4_FlattenIdempotent ==
    FlattenReturned =>
        LET again == Flatten(out, call.result)
        IN  /\ again.status = "ok"
            /\ Tree(again.heap, again.result) = Tree(out, call.result)
            /\ \A r \in Renderers :
                  LET s1 == to_str(r, out, call.result)
                      s2 == to_str(r, again.heap, again.result)
                  IN  s1.status = s2.status /\ s1.str = s2.str

C4_Witness ==
    /\ FlattenReturned
    /\ IsCompound(pre, call.self)
    /\ \E i \in DOMAIN pre[call.self].components :
          LET k == pre[call.self].components[i]
          IN  /\ IsCompound(pre, k)
              /\ pre[k].operator = pre[call.self].operator
              /\ \E j \in DOMAIN pre[k].components :
                    /\ IsCompound(pre, pre[k].components[j])
                    /\ pre[pre[k].components[j]].operator = pre[k].operator

\* C5: flatten and to_str leave every object of their input as it was,
\* whether they return or raise; the Compounds of flatten's result are new
\* objects with new lists, and the result shares only leaves with the input.
C5_InputUntouched ==
    call.op \in {"flatten", "to_str"} =>
        /\ \A n \in DOMAIN pre : out[n] = pre[n] /\ heap[n] = pre[n]
        /\ DOMAIN heap = DOMAIN pre
        /\ FlattenReturned =>
              \A n \in Reach(out, {call.result}) :
                  IF IsCompound(out, n)
                  THEN /\ n \notin DOMAIN pre
                       /\ \A m \in Compounds(pre) : out[n].lst # pre[m].lst
                  ELSE n \in DOMAIN pre

C5_Witness ==
    /\ FlattenReturned
    /\ IsCompound(pre, call.self)
    /\ \E i \in DOMAIN pre[call.self].components :
          IsCompound(pre, pre[call.self].components[i])

\* C6: NOT with more than one positional argument raises TypeError; with at
\* most one it raises ValueError unless positional and named arguments
\* together are exactly one, and then returns a NOT Compound of that one
\* component: the positional condition, or EQ(field, value) of the named pair.
C6_NotArity ==
    call.op = "NOT" =>
        IF call.npos > 1 THEN call.status = "TypeError"
        ELSE IF call.npos + call.nfields # 1 THEN call.status = "ValueError"
        ELSE /\ call.status = "ok"
             /\ IsCompound(heap, call.result)
             /\ call.result \notin DOMAIN pre
             /\ heap[call.result].operator = "NOT"
             /\ Len(heap[call.result].components) = 1
             /\ LET c == heap[call.result].components[1]
                IN  IF call.npos = 1
                    THEN c = call.self
                    ELSE c \notin DOMAIN pre /\ \E f \in Named :
                            Len(f) = 1 /\ heap[c] = Comparison("EQ", f[1][1], f[1][2])

C6_Witness ==
    call.op = "NOT" /\ call.npos = 1 /\ call.nfields = 1 /\ call.status = "ValueError"

\* C7: Compound, AND and OR called with no component raise ValueError, and
\* every Compound that exists, those of a flatten result included, has at
\* least one component.
C7_NonEmpty ==
    /\ (call.op \in {"Compound", "AND", "OR"} /\ call.npos + call.nfields = 0) =>
            call.status = "ValueError"
    /\ \A n \in Compounds(heap) : Len(heap[n].components) >= 1
    /\ \A n \in Compounds(out) : Len(out[n].components) >= 1

C7_Witness ==
    call.op = "AND" /\ call.npos = 0 /\ call.nfields = 0 /\ call.status = "ValueError"

\* the heap with every NE(f, v) leaf replaced by NOT(EQ(f, v))
NEs(h) == {n \in DOMAIN h : h[n].kind = "NE"}

NEReplaced(h) ==
    LET eq(n) == Cardinality(DOMAIN h) + Cardinality({k \in NEs(h) : k <= n})
    IN  [m \in 1..(Cardinality(DOMAIN h) + Cardinality(NEs(h))) |->
            IF m \in NEs(h) THEN CompoundNode("NOT", <<eq(m)>>, m)
            ELSE IF m \in DOMAIN h THEN h[m]
            ELSE LET n == CHOOSE k \in NEs(h) : eq(k) = m
                 IN  Comparison("EQ", h[n].field, h[n].value)]

\* C8: LdapRenderer renders a tree as it renders the tree with every
\* NE(f, v) leaf replaced by NOT(EQ(f, v)).
C8_LdapNERewritten ==
    (call.op = "to_str" /\ call.renderer = "LdapRenderer") =>
        LET t == to_str("LdapRenderer", NEReplaced(pre), call.self)
        IN  call.status = t.status /\ call.str = t.str

\* C9: NOT(NOT(x)).flatten() is a NOT Compound whose one component is a NOT
\* Compound of flatten(x), and flatten keeps the number of NOTs above
\* every leaf.
C9_NotNeverMerged ==
    /\ (/\ FlattenReturned
        /\ IsCompound(pre, call.self)
        /\ pre[call.self].operator = "NOT"
        /\ Len(pre[call.self].components) = 1
        /\ IsCompound(pre, pre[call.self].components[1])
        /\ pre[pre[call.self].components[1]].operator = "NOT"
        /\ Len(pre[pre[call.self].components[1]].components) = 1) =>
            LET x  == pre[pre[call.self].components[1]].components[1]
                fx == Flatten(pre, x)
            IN  Tree(out, call.result) =
                    [op |-> "NOT", leaf |-> 0, sub |->
                        <<[op |-> "NOT", leaf |-> 0, sub |->
                              <<Tree(fx.heap, fx.result)>>]>>]
    /\ FlattenReturned => NotDepths(out, call.result) = NotDepths(pre, call.self)

\* C10: flatten of an AND or OR Compound c returns a Compound of c's operator
\* whose components are the flattenings, in order, of the descendants of c
\* reached through Compounds of c's operator only that are not such
\* Compounds themselves; no AND or OR Compound of the result has a child of
\* its own operator, and the leaves keep their left-to-right order.
C10_MergedInOrder ==
    (/\ FlattenReturned
     /\ IsCompound(pre, call.self)
     /\ pre[call.self].operator \in {"AND", "OR"}) =>
        LET op == pre[call.self].operator
            fr == Frontier(pre, call.self, op)
            rc == out[call.result].components
        IN  /\ IsCompound(out, call.result)
            /\ out[call.result].operator = op
            /\ Len(rc) = Len(fr)
            /\ \A i \in DOMAIN fr :
                  LET f == Flatten(pre, fr[i])
                  IN  f.status = "ok" /\ Tree(out, rc[i]) = Tree(f.heap, f.result)
            /\ \A n \in Reach(out, {call.result}) :
                  (IsCompound(out, n) /\ out[n].operator \in {"AND", "OR"}) =>
                      \A i \in DOMAIN out[n].components :
                          LET k == out[n].components[i]
                          IN  ~(IsCompound(out, k) /\ out[k].operator = out[n].operator)
            /\ LeafSeq(out, call.result) = LeafSeq(pre, call.self)

C10_Witness ==
    /\ FlattenReturned
    /\ IsCompound(pre, call.self)
    /\ pre[call.self].operator \in {"AND", "OR"}
    /\ Len(out[call.result].components) > Len(pre[call.self].components)
    /\ \E i \in DOMAIN out[call.result].components :
          IsCompound(out, out[call.result].components[i])

====
